---- MODULE Spec2Model ----
(***************************************************************************)
(* Verification model of the post-retrieval decision engine of sparkie:    *)
(*   - KG reranking and quota selection (src/app/sparkie_engine.py)        *)
(*   - clause normalisation and graded clause matching                     *)
(*     (src/evaluation/eval_metrics_v2.py)                                 *)
(* Scores are floats in the source; here they are integers in hundredths   *)
(* (0.15 is 15, 1.0 is 100), which keeps every sum and comparison exact.   *)
(***************************************************************************)
EXTENDS Integers, Sequences, FiniteSets, TLC

VARIABLES
    pc,          \* position of the request in the pipeline
    candidates,  \* enriched_results: the list handed to _kg_rerank_candidates
    reranked,    \* the objects created by _kg_rerank_candidates, in list order
    final,       \* the list returned by _apply_quota_selection
    config,      \* the quota configuration of the request
    raw,         \* the string handed to _normalize_clause
    normalized,  \* what _normalize_clause returned
    cited,       \* normalized cited clause handed to _compute_clause_match_score
    expected,    \* normalized expected clause
    score,       \* what _compute_clause_match_score returned
    citedList,   \* cited_clauses handed to _grade_citation_accuracy
    expectedStr, \* expected_clause handed to _grade_citation_accuracy
    result,      \* what _grade_citation_accuracy returned
    retrieved,   \* retrieved_context handed to _evaluate_kg_metrics
    answer,      \* the answer text, as a sequence of tokens
    golden,      \* the ground-truth flags golden_has_table / golden_has_diagram
    metrics,     \* what _evaluate_kg_metrics returned
    queue,       \* the rows of EVAL_QUEUE, in queued_at order
    worker,      \* each evaluation worker's settings and position
    stored,      \* the number of EVAL_RESULTS rows stored per queue item
    logger       \* the InteractionLogger: its log queue, worker task and stop_worker call

vars == <<pc, candidates, reranked, final, config, raw, normalized, cited, expected, score,
          citedList, expectedStr, result, retrieved, answer, golden, metrics,
          queue, worker, stored, logger>>

pipelineVars == <<candidates, reranked, final, config>>
clauseVars == <<raw, normalized, cited, expected, score>>
graderVars == <<citedList, expectedStr, result>>
metricsVars == <<retrieved, answer, golden, metrics>>
workerVars == <<queue, worker, stored>>
loggerVars == <<logger>>
evalVars == <<graderVars, metricsVars, workerVars, loggerVars>>

(***************************************************************************)
(* Bounds of the model.                                                    *)
(***************************************************************************)
MaxCands == 3
MaxLogItems == 2
MaxStartCalls == 2
MaxFinalK == 2
MaxQuota == 1
MaxRawLen == 4
MaxDepth == 4
MaxCitedList == 2
MaxExpectedParts == 2
MaxRetrieved == 3
MaxAnswerTokens == 3
MaxQueue == 2
MaxRetries == 2

(***************************************************************************)
(* Program constants (hundredths for the float weights).                   *)
(***************************************************************************)
KG_FINAL_K == 20
KG_BOOST_A == 15
KG_BOOST_B == 5
KG_PENALTY_C == -10
KG_NEUTRAL_UNKNOWN == 0
MIN_NORMATIVE_TEXT == 4
MAX_NON_NORMATIVE_TEXT == 2
MIN_UNKNOWN_NONTEXT == 2

\* The configuration the module constants of sparkie_engine.py spell out.
ProgramConfig ==
    [KG_FINAL_K |-> KG_FINAL_K,
     MIN_NORMATIVE_TEXT |-> MIN_NORMATIVE_TEXT,
     MAX_NON_NORMATIVE_TEXT |-> MAX_NON_NORMATIVE_TEXT,
     MIN_UNKNOWN_NONTEXT |-> MIN_UNKNOWN_NONTEXT]

\* Quota configurations of a request: the program's own, and every small one.
Configs ==
    {ProgramConfig} \cup
    [KG_FINAL_K : 0..MaxFinalK,
     MIN_NORMATIVE_TEXT : 0..MaxQuota,
     MAX_NON_NORMATIVE_TEXT : 0..MaxQuota,
     MIN_UNKNOWN_NONTEXT : 0..MaxQuota]

ContentTypes == {"text_chunk", "structured_table", "visual_content"}
KgClasses == {"A", "B", "C", "UNKNOWN"}

\* cosine similarities (hundredths); with the weights they make equal
\* rerank scores possible (50+15 = 60+5, 60-10 = 50+0).
Similarities == {50, 60}

\* (CONTENT_TYPE, KG_CLASS, SIMILARITY) of a retrieved item: every class of
\* text, an unclassified table, and a visual carrying a stray class.
CandidateProfiles ==
    ({"text_chunk"} \X {"A", "B", "C"} \X Similarities)
    \cup {<<"text_chunk", "UNKNOWN", 50>>,
          <<"structured_table", "UNKNOWN", 50>>,
          <<"structured_table", "UNKNOWN", 60>>,
          <<"visual_content", "B", 60>>}

\* result_obj as built by _get_unified_view_content for position idx+1.
Candidate(i, profile) ==
    [CONTENT_ID |-> i, CONTENT_TYPE |-> profile[1], KG_CLASS |-> profile[2],
     SIMILARITY |-> profile[3], RANK |-> i]

CandidateLists ==
    UNION { { [i \in 1..n |-> Candidate(i, pf[i])] : pf \in [1..n -> CandidateProfiles] }
            : n \in 0..MaxCands }

(***************************************************************************)
(* list.sort(key=RERANK_SCORE, reverse=True): a stable sort, descending;   *)
(* items of equal key keep their relative order.                           *)
(***************************************************************************)
RECURSIVE InsertDesc(_, _)
InsertDesc(sorted, x) ==
    IF sorted = <<>> THEN <<x>>
    ELSE IF Head(sorted).RERANK_SCORE >= x.RERANK_SCORE
         THEN <<Head(sorted)>> \o InsertDesc(Tail(sorted), x)
         ELSE <<x>> \o sorted

RECURSIVE SortFrom(_, _)
SortFrom(acc, rest) ==
    IF rest = <<>> THEN acc
    ELSE SortFrom(InsertDesc(acc, Head(rest)), Tail(rest))

SortByRerankScoreDesc(list) == SortFrom(<<>>, list)

\* for i, item in enumerate(lst): item.RANK = i + 1
UpdateRank(list) == [i \in 1..Len(list) |-> [list[i] EXCEPT !.RANK = i]]

\* python slices lst[:n] and lst[n:] for 0 <= n
Take(list, n) == SubSeq(list, 1, IF n < Len(list) THEN n ELSE Len(list))
Drop(list, n) == SubSeq(list, (IF n < Len(list) THEN n ELSE Len(list)) + 1, Len(list))

Min(a, b) == IF a < b THEN a ELSE b

(***************************************************************************)
(* _kg_rerank_candidates                                                   *)
(***************************************************************************)
\* mutant: the class is looked at whatever the content type
KgBoostAnyType(content_type, kg_class) ==
    CASE kg_class = "A" -> KG_BOOST_A
      [] kg_class = "B" -> KG_BOOST_B
      [] kg_class = "C" -> KG_PENALTY_C
      [] OTHER -> KG_NEUTRAL_UNKNOWN

KgBoost(content_type, kg_class) ==
    IF content_type = "text_chunk"
    THEN CASE kg_class = "A" -> KG_BOOST_A
           [] kg_class = "B" -> KG_BOOST_B
           [] kg_class = "C" -> KG_PENALTY_C
           [] OTHER -> KG_NEUTRAL_UNKNOWN
    ELSE KG_NEUTRAL_UNKNOWN

RerankedObj(candidate) ==
    [CONTENT_ID |-> candidate.CONTENT_ID,
     CONTENT_TYPE |-> candidate.CONTENT_TYPE,
     KG_CLASS |-> candidate.KG_CLASS,
     SIMILARITY |-> candidate.SIMILARITY,
     RANK |-> candidate.RANK,
     RERANK_SCORE |-> candidate.SIMILARITY + KgBoost(candidate.CONTENT_TYPE, candidate.KG_CLASS),
     KG_BOOST |-> KgBoost(candidate.CONTENT_TYPE, candidate.KG_CLASS)]

\* mutant: a descending sort that is not stable (equal keys come out reversed)
RerankSortUnstable(list) == SortFrom(<<>>, [i \in 1..Len(list) |-> list[Len(list) + 1 - i]])
RerankSort(list) == SortByRerankScoreDesc(list)

KgRerankCandidates(cands) ==
    IF cands = <<>> THEN <<>>
    ELSE UpdateRank(RerankSort([i \in 1..Len(cands) |-> RerankedObj(cands[i])]))

\* mutant: the input objects themselves are appended, sorted and re-ranked
InputAfterRerankAliased(cands) ==
    [i \in 1..Len(cands) |->
        [cands[i] EXCEPT !.RANK =
            CHOOSE k \in 1..Len(cands) : KgRerankCandidates(cands)[k].CONTENT_ID = cands[i].CONTENT_ID]]

\* the caller's list and objects after the call: the loop reads each candidate
\* with getattr and appends a new object to a new list, which alone is sorted
\* and whose objects alone receive the new RANK.
InputAfterRerank(cands) == cands

(***************************************************************************)
(* _apply_quota_selection                                                  *)
(***************************************************************************)
IsNormativeText(c) == c.CONTENT_TYPE = "text_chunk" /\ c.KG_CLASS # "C"
IsNonNormativeText(c) == c.CONTENT_TYPE = "text_chunk" /\ c.KG_CLASS = "C"
IsUnknownNonText(c) == c.CONTENT_TYPE # "text_chunk"

\* mutant: the quota clamped to the final size
NormativeToAddClamped(cfg, normative_text) ==
    Min(Min(cfg.MIN_NORMATIVE_TEXT, Len(normative_text)), cfg.KG_FINAL_K)
NormativeToAdd(cfg, normative_text) == Min(cfg.MIN_NORMATIVE_TEXT, Len(normative_text))

\* mutant: the quota clamped to the final size
UnknownToAddClamped(cfg, unknown_nontext) ==
    Min(Min(cfg.MIN_UNKNOWN_NONTEXT, Len(unknown_nontext)), cfg.KG_FINAL_K)
UnknownToAdd(cfg, unknown_nontext) == Min(cfg.MIN_UNKNOWN_NONTEXT, Len(unknown_nontext))

\* mutant: the slots already taken by the quotas are not subtracted
RemainingSlotsNotSubtracted(cfg, selection) == cfg.KG_FINAL_K
RemainingSlots(cfg, selection) == cfg.KG_FINAL_K - Len(selection)

\* mutant: class-C text never enters the pool
CappedNonNormativeNone(cfg, non_normative_text) == <<>>

\* mutant: the cap on class-C text is left out
CappedNonNormativeUncapped(cfg, non_normative_text) == non_normative_text
CappedNonNormative(cfg, non_normative_text) == Take(non_normative_text, cfg.MAX_NON_NORMATIVE_TEXT)

\* mutant: the whole bucket goes to the pool, consumed head included
UnconsumedTailWhole(bucket, consumed) == bucket
UnconsumedTail(bucket, consumed) == Drop(bucket, consumed)

\* mutant: the pool is taken in bucket order, not sorted
PoolSortMissing(list) == list
\* remaining_candidates.sort(key=RERANK_SCORE, reverse=True)
PoolSort(list) == SortByRerankScoreDesc(list)

QuotaSteps(cfg, rr) ==
    LET normative_text == SelectSeq(rr, IsNormativeText)
        non_normative_text == SelectSeq(rr, IsNonNormativeText)
        unknown_nontext == SelectSeq(rr, IsUnknownNonText)
        normative_to_add == NormativeToAdd(cfg, normative_text)
        unknown_to_add == UnknownToAdd(cfg, unknown_nontext)
        quota == Take(normative_text, normative_to_add) \o Take(unknown_nontext, unknown_to_add)
        remaining_slots == RemainingSlots(cfg, quota)
        remaining_candidates ==
            PoolSort(
                UnconsumedTail(normative_text, normative_to_add)
                \o UnconsumedTail(unknown_nontext, unknown_to_add)
                \o CappedNonNormative(cfg, non_normative_text))
    IN  IF remaining_slots > 0
        THEN quota \o Take(remaining_candidates, remaining_slots)
        ELSE quota

\* mutant: the final sort is left out
FinalSortMissing(list) == list
FinalSort(list) == SortByRerankScoreDesc(list)

ApplyQuotaSelection(cfg, rr) ==
    IF rr = <<>> THEN <<>>
    ELSE UpdateRank(FinalSort(QuotaSteps(cfg, rr)))

\* The selected objects are the reranked list's own objects: the RANK written
\* by the selection shows through the reranked list as well.
RerankedAfterSelection(rr, fin) ==
    [i \in 1..Len(rr) |->
        IF \E j \in 1..Len(fin) : fin[j].CONTENT_ID = rr[i].CONTENT_ID
        THEN [rr[i] EXCEPT !.RANK =
                (CHOOSE j \in 1..Len(fin) : fin[j].CONTENT_ID = rr[i].CONTENT_ID)]
        ELSE rr[i]]

(***************************************************************************)
(* Strings are sequences of one-character strings.                         *)
(***************************************************************************)
Digits == {"0", "1", "2", "3", "4", "5", "6", "7", "8", "9"}
Whitespace == {" ", "\t", "\n"}

\* the value None
None == <<"None">>

\* the characters raw clause references are drawn from: digits, the dot,
\* white space, a letter and punctuation
RawAlphabet == {"1", "4", ".", " ", "a", ","}

RawStringsOfLen(n) == [1..n -> RawAlphabet]

ExampleClauseRaw == <<"C", "l", "a", "u", "s", "e", " ", "1", ".", ".", "4", ".">>
ExampleRaws ==
    {ExampleClauseRaw, <<"a", "b", "c">>, <<".">>, <<>>, <<",", ";", "-", "!">>,
     <<" ", "3", ".", "7", ".", "2", ".", "1", " ">>}

RawStrings == (UNION {RawStringsOfLen(n) : n \in 0..MaxRawLen}) \cup ExampleRaws

(***************************************************************************)
(* _normalize_clause                                                       *)
(***************************************************************************)
\* str.strip(): leading and trailing characters of the set removed
RECURSIVE LStrip(_, _)
LStrip(s, chars) ==
    IF s # <<>> /\ Head(s) \in chars THEN LStrip(Tail(s), chars) ELSE s

RECURSIVE RStrip(_, _)
RStrip(s, chars) ==
    IF s # <<>> /\ s[Len(s)] \in chars THEN RStrip(SubSeq(s, 1, Len(s) - 1), chars) ELSE s

StripChars(s, chars) == RStrip(LStrip(s, chars), chars)

IsDigitOrDot(ch) == ch \in Digits \cup {"."}

\* re.sub(r'[^\d.]', '', clause)
KeepDigitsAndDots(s) == SelectSeq(s, IsDigitOrDot)

\* mutant: repeated dots are not collapsed
CollapseDotsMissing(s) == s

\* re.sub(r'\.{2,}', '.', clause)
RECURSIVE CollapseDots(_)
CollapseDots(s) ==
    IF Len(s) < 2 THEN s
    ELSE IF s[1] = "." /\ s[2] = "." THEN CollapseDots(Tail(s))
    ELSE <<s[1]>> \o CollapseDots(Tail(s))

\* re.match(r'^\d+(\.\d+)*$', clause), read left to right; afterDigit tells
\* whether the character before was a digit
RECURSIVE MatchesFrom(_, _)
MatchesFrom(s, afterDigit) ==
    IF s = <<>> THEN afterDigit
    ELSE IF Head(s) \in Digits THEN MatchesFrom(Tail(s), TRUE)
    ELSE IF Head(s) = "." THEN afterDigit /\ MatchesFrom(Tail(s), FALSE)
    ELSE FALSE

MatchesClausePattern(s) == MatchesFrom(s, FALSE)

NormalizeClause(clause) ==
    IF clause = <<>> THEN None
    ELSE LET stripped == StripChars(clause, Whitespace)
             kept == KeepDigitsAndDots(stripped)
             collapsed == CollapseDots(kept)
             trimmed == StripChars(collapsed, {"."})
         IN  IF ~MatchesClausePattern(trimmed) THEN None ELSE trimmed

(***************************************************************************)
(* _compute_clause_match_score                                             *)
(***************************************************************************)
\* str.startswith
StartsWith(s, prefix) ==
    Len(prefix) <= Len(s) /\ SubSeq(s, 1, Len(prefix)) = prefix

\* len(s.split('.')): one more than the number of dots
RECURSIVE SplitDot(_)
SplitDot(s) ==
    IF \A i \in 1..Len(s) : s[i] # "." THEN <<s>>
    ELSE LET d == CHOOSE i \in 1..Len(s) : s[i] = "." /\ \A j \in 1..(i - 1) : s[j] # "."
         IN  <<SubSeq(s, 1, d - 1)>> \o SplitDot(SubSeq(s, d + 1, Len(s)))

\* mutant: the prefix test without the separating dot
HasDottedPrefixNoDot(s, prefix) == StartsWith(s, prefix)

\* s.startswith(prefix + '.')
HasDottedPrefix(s, prefix) == StartsWith(s, prefix \o <<".">>)

\* the if / elif / elif ladder on the depth of the shorter clause; -1 when no
\* branch returns and control falls through to the next test
DepthScore(depth) ==
    IF depth = 1 THEN 50
    ELSE IF depth = 2 THEN 60
    ELSE IF depth >= 3 THEN 75
    ELSE -1

\* mutant: the child match (cited more specific than expected) is left out
ComputeClauseMatchScoreParentOnly(c, e) ==
    IF c = e THEN 100
    ELSE IF HasDottedPrefix(e, c) /\ DepthScore(Len(SplitDot(c))) # -1
         THEN DepthScore(Len(SplitDot(c)))
    ELSE IF SplitDot(c)[1] = SplitDot(e)[1] THEN 30
    ELSE 0

ComputeClauseMatchScore(c, e) ==
    IF c = e THEN 100
    ELSE IF HasDottedPrefix(e, c) /\ DepthScore(Len(SplitDot(c))) # -1
         THEN DepthScore(Len(SplitDot(c)))
    ELSE IF HasDottedPrefix(c, e) /\ DepthScore(Len(SplitDot(e))) # -1
         THEN DepthScore(Len(SplitDot(e)))
    ELSE IF SplitDot(c)[1] = SplitDot(e)[1] THEN 30
    ELSE 0

\* clause numbers (segments) and the normalized clause ids made of them
ClauseSegments == {<<"1">>, <<"2">>, <<"1", "2">>}

RECURSIVE JoinDot(_)
JoinDot(segs) ==
    IF Len(segs) = 1 THEN segs[1]
    ELSE segs[1] \o <<".">> \o JoinDot(Tail(segs))

ClauseIdsOfDepth(n) == {JoinDot(segs) : segs \in [1..n -> ClauseSegments]}

ExampleClauseIds ==
    {<<"1", ".", "4">>, <<"1", ".", "4", ".", "3", "2">>, <<"1", ".", "5">>,
     <<"2", ".", "1">>, <<"1", ".", "1">>}

ClauseIds == (UNION {ClauseIdsOfDepth(n) : n \in 1..MaxDepth}) \cup ExampleClauseIds

(***************************************************************************)
(* _grade_citation_accuracy                                                *)
(***************************************************************************)
\* expected_clause.split(',')
RECURSIVE SplitComma(_)
SplitComma(s) ==
    IF \A i \in 1..Len(s) : s[i] # "," THEN <<s>>
    ELSE LET d == CHOOSE i \in 1..Len(s) : s[i] = "," /\ \A j \in 1..(i - 1) : s[j] # ","
         IN  <<SubSeq(s, 1, d - 1)>> \o SplitComma(SubSeq(s, d + 1, Len(s)))

IsNotNone(x) == x # None

\* [self._normalize_clause(e) for e in lst], then [e for e in lst if e]
NormalizeAll(list) ==
    SelectSeq([i \in 1..Len(list) |-> NormalizeClause(list[i])], IsNotNone)

\* expected_raw, expected_set
ExpectedSet(expected_clause) ==
    LET parts == SplitComma(expected_clause)
    IN  NormalizeAll([i \in 1..Len(parts) |-> StripChars(parts[i], Whitespace)])

\* the inner loop: best_score starts at 0.0 and is replaced by a greater score
RECURSIVE BestScore(_, _, _)
BestScore(c, expected_set, best_score) ==
    IF expected_set = <<>> THEN best_score
    ELSE LET s == ComputeClauseMatchScore(c, Head(expected_set))
         IN  BestScore(c, Tail(expected_set), IF s > best_score THEN s ELSE best_score)

MatchScores(cited_set, expected_set) ==
    [i \in 1..Len(cited_set) |-> BestScore(cited_set[i], expected_set, 0)]

RECURSIVE SumSeq(_)
SumSeq(xs) == IF xs = <<>> THEN 0 ELSE Head(xs) + SumSeq(Tail(xs))

\* mutant: the scores are averaged
AggregateScoreAverage(match_scores) ==
    IF match_scores = <<>> THEN 0 ELSE SumSeq(match_scores) \div Len(match_scores)

\* mutant: the last citation decides
AggregateScoreLast(match_scores) ==
    IF match_scores = <<>> THEN 0 ELSE match_scores[Len(match_scores)]

\* max(match_scores) if match_scores else 0.0
AggregateScore(match_scores) ==
    IF match_scores = <<>> THEN 0
    ELSE CHOOSE m \in {match_scores[i] : i \in 1..Len(match_scores)} :
            \A i \in 1..Len(match_scores) : m >= match_scores[i]

\* mutant: partial parent matches count as correct
CorrectClauseRefLenient(citation_accuracy) == citation_accuracy >= 60

\* correct_clause_ref = citation_accuracy >= 0.75
CorrectClauseRef(citation_accuracy) == citation_accuracy >= 75

GradeResult(accuracy, correct, details) ==
    [citation_accuracy |-> accuracy, correct_clause_ref |-> correct,
     citation_details |-> details]

\* mutant: the first test looks at the expected clause instead of the citation list
MissingExpectedFirst(cited_clauses, expected_clause) ==
    expected_clause = None \/ expected_clause = <<>>

\* the first early return is taken: `not cited_clauses`
NoCitations(cited_clauses, expected_clause) == cited_clauses = <<>>

GradeCitationAccuracy(cited_clauses, expected_clause) ==
    IF NoCitations(cited_clauses, expected_clause)
    THEN GradeResult(0, FALSE, "No citations found in answer")
    ELSE IF expected_clause = None \/ expected_clause = <<>>
    THEN GradeResult(50, FALSE, "No expected clause provided for comparison")
    ELSE IF ExpectedSet(expected_clause) = <<>>
    THEN GradeResult(50, FALSE, "Could not parse expected clause")
    ELSE IF NormalizeAll(cited_clauses) = <<>>
    THEN GradeResult(0, FALSE, "Cited clauses could not be normalized")
    ELSE LET accuracy ==
                AggregateScore(MatchScores(NormalizeAll(cited_clauses), ExpectedSet(expected_clause)))
         IN  GradeResult(accuracy, CorrectClauseRef(accuracy), "Expected | Cited | Best matches | Score")

\* raw citation strings as _extract_clause_references hands them over, and
\* strings that do not normalize
CitedRawStrings ==
    {<<"1", ".", "4">>,
     <<"C", "l", "a", "u", "s", "e", " ", "1", ".", "4", ".", "3", ".", "2">>,
     <<"2", ".", "1">>,
     <<"a", "b", "c">>}

\* the comma-separated parts an expected_clause is made of
ExpectedRawParts ==
    {<<"1", ".", "4">>,
     <<" ", "1", ".", "4", ".", "3", ".", "2", ".", "1">>,
     <<"n", "/", "a">>}

RECURSIVE JoinComma(_)
JoinComma(parts) ==
    IF Len(parts) = 1 THEN parts[1]
    ELSE parts[1] \o <<",">> \o JoinComma(Tail(parts))

\* expected_clause: None, the empty string, or parts joined by commas
ExpectedStrings ==
    {None, <<>>} \cup
    UNION { {JoinComma(parts) : parts \in [1..n -> ExpectedRawParts]} : n \in 1..MaxExpectedParts }

CitedLists == UNION { [1..n -> CitedRawStrings] : n \in 0..MaxCitedList }

NoResult == [citation_accuracy |-> -1, correct_clause_ref |-> FALSE, citation_details |-> "not graded"]

GraderIdle ==
    /\ citedList = <<>>
    /\ expectedStr = None
    /\ result = NoResult

(***************************************************************************)
(* _evaluate_kg_metrics and _extract_cited_content_ids.                    *)
(* The answer text is a sequence of tokens separated by blanks.  A token   *)
(* is a word, optionally followed by a number ("Table 8.2"), or an         *)
(* explicit citation "[ID: ID_i]" of content id i; content ids are the     *)
(* integers 1, 2, ... and id 0 marks a token that is no citation.  The     *)
(* retrieved items carry no text_content or description, so the clause     *)
(* mapping and the text-overlap mapping of _extract_cited_content_ids skip *)
(* every item.                                                             *)
(***************************************************************************)
RetrievedKinds ==
    << [content_type |-> "text_chunk", kg_class |-> "A"],
       [content_type |-> "text_chunk", kg_class |-> "B"],
       [content_type |-> "text_chunk", kg_class |-> "C"],
       [content_type |-> "structured_table", kg_class |-> "UNKNOWN"],
       [content_type |-> "visual_content", kg_class |-> "UNKNOWN"],
       [content_type |-> "visual_content", kg_class |-> "B"] >>

RetrievedItem(i, kind) ==
    [content_id |-> i, content_type |-> kind.content_type, kg_class |-> kind.kg_class]

\* the kinds of a list's items, by their position in RetrievedKinds, in
\* ascending or in descending order
KindOrders(n) ==
    LET ascending == {ks \in [1..n -> 1..Len(RetrievedKinds)] :
                         \A i \in 1..n, j \in 1..n : i < j => ks[i] <= ks[j]}
    IN  ascending \cup {[i \in 1..n |-> ks[n + 1 - i]] : ks \in ascending}

RetrievedContexts ==
    UNION { { [i \in 1..n |-> RetrievedItem(i, RetrievedKinds[ks[i]])] : ks \in KindOrders(n) } :
            n \in 0..MaxRetrieved }

ExplicitCitation(i) == [text |-> "[ID:]", number |-> "", id |-> i]
Word(text, number) == [text |-> text, number |-> number, id |-> 0]

\* The words of the vocabulary; a citation of every content id that can be
\* retrieved and of one more, which is not in retrieved_context.
AnswerWords == <<Word("Unless", ""), Word("Table", "8.2"), Word("figure", "3")>>

AnswerVocabulary ==
    [i \in 1..(MaxRetrieved + 1) |-> ExplicitCitation(i)] \o AnswerWords

KthSmallest(S, k) == CHOOSE x \in S : Cardinality({y \in S : y < x}) = k - 1

\* the tokens of the vocabulary at the positions S, in vocabulary order
TokensAt(S) == [k \in 1..Cardinality(S) |-> AnswerVocabulary[KthSmallest(S, k)]]

\* Answers of at most MaxAnswerTokens different tokens, and the answers
\* that say one token twice.
Answers ==
    { TokensAt(S) : S \in {T \in SUBSET (1..Len(AnswerVocabulary)) : Cardinality(T) <= MaxAnswerTokens} }
    \cup { <<AnswerVocabulary[i], AnswerVocabulary[i]>> : i \in 1..Len(AnswerVocabulary) }

\* Optional[bool]
GoldenFlagValues == {"None", "True", "False"}
GoldenFlags ==
    { [has_table |-> "None", has_diagram |-> "None"],
      [has_table |-> "True", has_diagram |-> "False"],
      [has_table |-> "False", has_diagram |-> "True"],
      [has_table |-> "True", has_diagram |-> "True"] }
Truthy(flag) == flag = "True"

\* retrieved_kg_classes: kg_class of every item, whatever its content_type
RetrievedKgClasses(retrieved_context) ==
    [k \in KgClasses |->
        Cardinality({i \in 1..Len(retrieved_context) : retrieved_context[i].kg_class = k})]

RetrievedContentTypes(retrieved_context) ==
    [t \in ContentTypes |->
        Cardinality({i \in 1..Len(retrieved_context) : retrieved_context[i].content_type = t})]

InRetrieved(content_id, retrieved_context) ==
    \E i \in 1..Len(retrieved_context) : retrieved_context[i].content_id = content_id

\* explicit [ID: ...] citations are kept as found; a bare-id match (which
\* also matches inside an explicit citation) is kept if it is retrieved;
\* list(set(...)) removes duplicates
ExtractCitedContentIds(answer_text, retrieved_context) ==
    LET explicit_ids == {answer_text[k].id : k \in {j \in 1..Len(answer_text) : answer_text[j].id # 0}}
        valid_bare_ids == {bid \in explicit_ids : InRetrieved(bid, retrieved_context)}
    IN  explicit_ids \cup valid_bare_ids

\* the first item of retrieved_context with this content_id (the loop breaks)
FirstMatch(content_id, retrieved_context) ==
    retrieved_context[CHOOSE i \in 1..Len(retrieved_context) :
        /\ retrieved_context[i].content_id = content_id
        /\ \A j \in 1..(i - 1) : retrieved_context[j].content_id # content_id]

CitedKgClasses(cited_content_ids, retrieved_context) ==
    [k \in KgClasses |->
        Cardinality({id \in cited_content_ids :
            /\ InRetrieved(id, retrieved_context)
            /\ FirstMatch(id, retrieved_context).kg_class = k})]

TotalCited(cited_kg_classes) ==
    cited_kg_classes["A"] + cited_kg_classes["B"] + cited_kg_classes["C"] + cited_kg_classes["UNKNOWN"]

\* METRIC 1: normative coverage
HasNormativeRetrieved(retrieved_kg_classes) ==
    retrieved_kg_classes["A"] + retrieved_kg_classes["B"] > 0

\* mutant: only a cited class-A item counts as normative
HasNormativeCitedOnlyA(cited_kg_classes, total_cited) ==
    total_cited > 0 /\ cited_kg_classes["A"] > 0

\* None (no citation mapped) is falsy
HasNormativeCited(cited_kg_classes, total_cited) ==
    total_cited > 0 /\ cited_kg_classes["A"] + cited_kg_classes["B"] > 0

NormativeCoverageScore(has_normative_cited, has_normative_retrieved) ==
    IF has_normative_cited THEN 100
    ELSE IF has_normative_retrieved THEN 50 ELSE 0

\* METRIC 2: non-normative reliance.  The percentage and the score are
\* exact fractions num/den with den > 0.
Fraction(num, den) == [num |-> num, den |-> den]

CReliancePct(cited_kg_classes, total_cited) ==
    IF total_cited > 0 THEN Fraction(cited_kg_classes["C"] * 100, total_cited)
    ELSE Fraction(0, 1)

\* mutant: the percentage is divided by 100 instead of 50
NonNormativeRelianceScorePer100(c_reliance_pct) ==
    LET num == c_reliance_pct.den * 100 - c_reliance_pct.num
    IN  IF num > 0 THEN Fraction(num, c_reliance_pct.den * 100) ELSE Fraction(0, 1)

\* max(0.0, 1.0 - (c_reliance_pct / 50.0))
NonNormativeRelianceScore(c_reliance_pct) ==
    LET num == c_reliance_pct.den * 50 - c_reliance_pct.num
    IN  IF num > 0 THEN Fraction(num, c_reliance_pct.den * 50) ELSE Fraction(0, 1)

\* METRIC 3: conditional risk.  The patterns are searched with
\* re.IGNORECASE between word boundaries; the three patterns with ".*"
\* (shall.*where, must.*when, required.*if) match only where \bwhere\b,
\* \bwhen\b or \bif\b match as well.
ConditionalLanguagePatterns ==
    {"where", "when", "if", "unless", "only if", "in cases where", "provided that",
     "subject to", "depending on", "may", "can"}

Lower(text) ==
    CASE text = "Unless" -> "unless"
      [] text = "Table" -> "table"
      [] OTHER -> text

HasConditionalLanguage(answer_text) ==
    \E k \in 1..Len(answer_text) : Lower(answer_text[k].text) \in ConditionalLanguagePatterns

\* mutant: a cited class-B item passes without the language check
ConditionalRiskScoreUnchecked(b_chunks_cited, b_chunks_retrieved, total_cited, has_conditional_language) ==
    IF b_chunks_cited > 0 THEN 100
    ELSE IF b_chunks_retrieved > 0 /\ total_cited > 0
         THEN (IF has_conditional_language THEN 100 ELSE 50)
         ELSE 100

ConditionalRiskScore(b_chunks_cited, b_chunks_retrieved, total_cited, has_conditional_language) ==
    IF b_chunks_cited > 0
    THEN (IF has_conditional_language THEN 100 ELSE 0)
    ELSE IF b_chunks_retrieved > 0 /\ total_cited > 0
         THEN (IF has_conditional_language THEN 100 ELSE 50)
         ELSE 100

\* METRIC 4: multimodal starvation
\* [Tt]able\s+\d+(?:\.\d+)? and [Ff]igure\s+\d+(?:\.\d+)?, case-sensitive
TableMentions(answer_text) ==
    {k \in 1..Len(answer_text) :
        answer_text[k].text \in {"Table", "table"} /\ answer_text[k].number # ""}

FigureMentions(answer_text) ==
    {k \in 1..Len(answer_text) :
        answer_text[k].text \in {"Figure", "figure"} /\ answer_text[k].number # ""}

\* mutant: with ground truth, only the table requirement is looked at
MultimodalStarvationScoreTableOnly(golden_has_table, golden_has_diagram, has_table_retrieved, has_visual_retrieved, answer_text) ==
    IF Truthy(golden_has_table) \/ Truthy(golden_has_diagram)
    THEN IF Truthy(golden_has_table) /\ ~has_table_retrieved THEN 0 ELSE 100
    ELSE IF TableMentions(answer_text) # {} /\ ~has_table_retrieved THEN 50
         ELSE IF FigureMentions(answer_text) # {} /\ ~has_visual_retrieved THEN 50
         ELSE 100

MultimodalStarvationScore(golden_has_table, golden_has_diagram, has_table_retrieved, has_visual_retrieved, answer_text) ==
    IF Truthy(golden_has_table) \/ Truthy(golden_has_diagram)
    THEN IF Truthy(golden_has_table) /\ ~has_table_retrieved THEN 0
         ELSE IF Truthy(golden_has_diagram) /\ ~has_visual_retrieved THEN 0
         ELSE 100
    ELSE IF TableMentions(answer_text) # {} /\ ~has_table_retrieved THEN 50
         ELSE IF FigureMentions(answer_text) # {} /\ ~has_visual_retrieved THEN 50
         ELSE 100

EvaluateKgMetrics(answer_text, retrieved_context, golden_has_table, golden_has_diagram) ==
    LET retrieved_kg_classes == RetrievedKgClasses(retrieved_context)
        retrieved_content_types == RetrievedContentTypes(retrieved_context)
        cited_content_ids == ExtractCitedContentIds(answer_text, retrieved_context)
        cited_kg_classes == CitedKgClasses(cited_content_ids, retrieved_context)
        total_cited == TotalCited(cited_kg_classes)
        c_reliance_pct == CReliancePct(cited_kg_classes, total_cited)
    IN  [ kg_normative_coverage |->
              NormativeCoverageScore(HasNormativeCited(cited_kg_classes, total_cited),
                                     HasNormativeRetrieved(retrieved_kg_classes)),
          kg_non_normative_reliance |-> NonNormativeRelianceScore(c_reliance_pct),
          kg_c_reliance_pct |-> c_reliance_pct,
          kg_conditional_risk |->
              ConditionalRiskScore(cited_kg_classes["B"], retrieved_kg_classes["B"], total_cited,
                                   HasConditionalLanguage(answer_text)),
          kg_multimodal_starvation |->
              MultimodalStarvationScore(golden_has_table, golden_has_diagram,
                                        retrieved_content_types["structured_table"] > 0,
                                        retrieved_content_types["visual_content"] > 0,
                                        answer_text),
          kg_retrieved_counts |-> retrieved_kg_classes,
          kg_cited_counts |-> cited_kg_classes,
          kg_retrieved_content_types |-> retrieved_content_types ]

NoCounts == [k \in KgClasses |-> 0]

NoMetrics ==
    [ kg_normative_coverage |-> -1,
      kg_non_normative_reliance |-> Fraction(-1, 1),
      kg_c_reliance_pct |-> Fraction(-1, 1),
      kg_conditional_risk |-> -1,
      kg_multimodal_starvation |-> -1,
      kg_retrieved_counts |-> NoCounts,
      kg_cited_counts |-> NoCounts,
      kg_retrieved_content_types |-> [t \in ContentTypes |-> 0] ]

NoGoldenFlags == [has_table |-> "None", has_diagram |-> "None"]

MetricsIdle ==
    /\ retrieved = <<>>
    /\ answer = <<>>
    /\ golden = NoGoldenFlags
    /\ metrics = NoMetrics

(***************************************************************************)
(* The evaluation queue and the evaluation worker (eval_worker.py).        *)
(* A queue id is the row's position in queued_at order.  The database      *)
(* statements succeed; an evaluation may raise.                            *)
(***************************************************************************)
BATCH_SIZE == 10
MAX_CONCURRENT == 3
DEFAULT_PRIORITY == 5

WorkerIds == {"worker-1"}

WorkerConfigs ==
    { [batch_size |-> BATCH_SIZE, max_concurrent |-> MAX_CONCURRENT],
      [batch_size |-> 2, max_concurrent |-> 1] }

Priorities == {1, DEFAULT_PRIORITY}

\* INSERT INTO EVAL_QUEUE (queue_id, interaction_id, eval_run_id, priority):
\* the other columns take the defaults of the table, a pending row that has
\* not failed yet and a positive retry ceiling
NewQueueRow(priority, max_retries) ==
    [ status |-> "pending", retry_count |-> 0, max_retries |-> max_retries,
      priority |-> priority, claimed_at |-> "NULL", worker_id |-> "NULL" ]

\* WHERE status = 'pending' AND (retry_count < max_retries OR retry_count IS NULL);
\* retry_count is a number in every row, so the NULL case does not arise
Claimable(row) == row.status = "pending" /\ row.retry_count < row.max_retries

\* ORDER BY priority ASC, queued_at ASC
OrderedBefore(rows, i, j) ==
    \/ rows[i].priority < rows[j].priority
    \/ rows[i].priority = rows[j].priority /\ i < j

\* the queue ids returned by the SELECT ... LIMIT batch_size
SelectClaimable(rows, batch_size) ==
    LET ids == {i \in 1..Len(rows) : Claimable(rows[i])}
        position(i) == Cardinality({j \in ids : OrderedBefore(rows, j, i)})
        n == Min(batch_size, Cardinality(ids))
    IN  [k \in 1..n |-> CHOOSE i \in ids : position(i) = k - 1]

\* UPDATE ... SET status = 'claimed' ... WHERE queue_id IN (queue_ids)
MarkRowsClaimed(rows, queue_ids, worker_id) ==
    [i \in 1..Len(rows) |->
        IF \E k \in 1..Len(queue_ids) : queue_ids[k] = i
        THEN [rows[i] EXCEPT !.status = "claimed",
                             !.claimed_at = "CURRENT_TIMESTAMP",
                             !.worker_id = worker_id]
        ELSE rows[i]]

\* mutant: a failed evaluation always returns the row to 'pending'
StatusAfterFailureNoCeiling(retry_count, max_retries) == "pending"

\* CASE WHEN retry_count + 1 >= max_retries THEN 'failed' ELSE 'pending' END
StatusAfterFailure(retry_count, max_retries) ==
    IF retry_count + 1 >= max_retries THEN "failed" ELSE "pending"

\* _complete_queue_item(queue_id, success)
CompleteQueueItem(row, success) ==
    IF success
    THEN [row EXCEPT !.status = "completed"]
    ELSE [row EXCEPT !.retry_count = row.retry_count + 1,
                     !.status = StatusAfterFailure(row.retry_count, row.max_retries),
                     !.claimed_at = "NULL",
                     !.worker_id = "NULL"]

\* mutant: a task is started for every claimed row
StartedTasksUnbounded(queue_items, max_concurrent) ==
    {queue_items[k] : k \in 1..Len(queue_items)}

\* the tasks of _process_batch: queue_items[:max_concurrent]
StartedTasks(queue_items, max_concurrent) ==
    {queue_items[k] : k \in 1..Min(max_concurrent, Len(queue_items))}

NewWorker(cfg) ==
    [ pc |-> "polling", batch_size |-> cfg.batch_size, max_concurrent |-> cfg.max_concurrent,
      queue_items |-> <<>>, tasks |-> {} ]

WorkerIdle ==
    /\ queue = <<>>
    /\ worker = <<>>
    /\ stored = <<>>

(***************************************************************************)
(* InteractionLogger: log_session / log_interaction put items on an        *)
(* asyncio.Queue, one background task takes them off and inserts them.     *)
(***************************************************************************)
LogTypes == {"session", "interaction"}

\* InteractionLogger.__init__: an empty queue (no unfinished task), no worker
\* task; no call made yet
NewLogger ==
    [log_queue |-> <<>>, unfinished_tasks |-> 0, worker_task |-> "None", tasks |-> 0,
     start_calls |-> 0, put_calls |-> 0, stop |-> "not_called", done |-> {}, queued_before_stop |-> {}]

LoggerIdle == logger = NewLogger

EvalIdle == GraderIdle /\ MetricsIdle /\ WorkerIdle /\ LoggerIdle

(***************************************************************************)
(* The request pipeline of _get_unified_view_content.                      *)
(***************************************************************************)
ClauseIdle ==
    /\ raw = <<>>
    /\ normalized = None
    /\ cited = <<>>
    /\ expected = <<>>
    /\ score = -1

Init ==
    /\ pc = "retrieved"
    /\ candidates \in CandidateLists
    /\ config = ProgramConfig
    /\ reranked = <<>>
    /\ final = <<>>
    /\ ClauseIdle
    /\ EvalIdle

Rerank ==
    /\ pc = "retrieved"
    /\ reranked' = KgRerankCandidates(candidates)
    /\ candidates' = InputAfterRerank(candidates)
    /\ pc' = "reranked"
    /\ UNCHANGED <<final, config>>
    /\ UNCHANGED clauseVars
    /\ UNCHANGED evalVars

\* selectQuota(candidates', config): the quota configuration is an input of
\* the selection step (the module constants of the source are one value of it).
SelectQuota ==
    /\ pc = "reranked"
    /\ \E cfg \in Configs :
        /\ config' = cfg
        /\ final' = ApplyQuotaSelection(cfg, reranked)
    /\ reranked' = RerankedAfterSelection(reranked, final')
    /\ pc' = "selected"
    /\ UNCHANGED candidates
    /\ UNCHANGED clauseVars
    /\ UNCHANGED evalVars

Next == Rerank \/ SelectQuota

Spec == Init /\ [][Next]_vars

\* a second call of _kg_rerank_candidates on the same input list
RerankAgain ==
    /\ pc = "reranked"
    /\ reranked' = KgRerankCandidates(candidates)
    /\ candidates' = InputAfterRerank(candidates)
    /\ pc' = "reranked_again"
    /\ UNCHANGED <<final, config>>
    /\ UNCHANGED clauseVars
    /\ UNCHANGED evalVars

NextRerank == Rerank \/ RerankAgain

SpecRerank == Init /\ [][NextRerank]_vars

PipelineIdle ==
    /\ candidates = <<>>
    /\ reranked = <<>>
    /\ final = <<>>
    /\ config = ProgramConfig

(***************************************************************************)
(* One call of _normalize_clause.                                          *)
(***************************************************************************)
InitNorm ==
    /\ pc = "raw"
    /\ raw \in RawStrings
    /\ normalized = None
    /\ cited = <<>>
    /\ expected = <<>>
    /\ score = -1
    /\ PipelineIdle
    /\ EvalIdle

Normalize ==
    /\ pc = "raw"
    /\ normalized' = NormalizeClause(raw)
    /\ pc' = "normalized"
    /\ UNCHANGED <<raw, cited, expected, score>>
    /\ UNCHANGED pipelineVars
    /\ UNCHANGED evalVars

NextNorm == Normalize

SpecNorm == InitNorm /\ [][NextNorm]_vars

(***************************************************************************)
(* One call of _compute_clause_match_score on two normalized clauses.      *)
(***************************************************************************)
InitMatch ==
    /\ pc = "clauses"
    /\ cited \in ClauseIds
    /\ expected \in ClauseIds
    /\ score = -1
    /\ raw = <<>>
    /\ normalized = None
    /\ PipelineIdle
    /\ EvalIdle

Match ==
    /\ pc = "clauses"
    /\ score' = ComputeClauseMatchScore(cited, expected)
    /\ pc' = "matched"
    /\ UNCHANGED <<raw, normalized, cited, expected>>
    /\ UNCHANGED pipelineVars
    /\ UNCHANGED evalVars

NextMatch == Match

SpecMatch == InitMatch /\ [][NextMatch]_vars

\* a second call of _compute_clause_match_score, the two clauses exchanged
MatchSwapped ==
    /\ pc = "matched"
    /\ score' = ComputeClauseMatchScore(expected, cited)
    /\ pc' = "matched_swapped"
    /\ UNCHANGED <<raw, normalized, cited, expected>>
    /\ UNCHANGED pipelineVars
    /\ UNCHANGED evalVars

NextMatchBoth == Match \/ MatchSwapped

SpecMatchBoth == InitMatch /\ [][NextMatchBoth]_vars

(***************************************************************************)
(* Calls of _grade_citation_accuracy: a first call, then further calls     *)
(* with the same expected clause and one more, or reordered, citations.    *)
(***************************************************************************)
InitGrade ==
    /\ pc = "ungraded"
    /\ citedList \in CitedLists
    /\ expectedStr \in ExpectedStrings
    /\ result = NoResult
    /\ ClauseIdle
    /\ PipelineIdle
    /\ MetricsIdle
    /\ WorkerIdle
    /\ LoggerIdle

Grade ==
    /\ pc = "ungraded"
    /\ result' = GradeCitationAccuracy(citedList, expectedStr)
    /\ pc' = "graded"
    /\ UNCHANGED <<citedList, expectedStr>>
    /\ UNCHANGED <<pipelineVars, clauseVars, metricsVars, workerVars, loggerVars>>

GradeWithOneMore ==
    /\ pc = "graded"
    /\ Len(citedList) < MaxCitedList + 1
    /\ \E c \in CitedRawStrings : citedList' = Append(citedList, c)
    /\ result' = GradeCitationAccuracy(citedList', expectedStr)
    /\ UNCHANGED <<pc, expectedStr>>
    /\ UNCHANGED <<pipelineVars, clauseVars, metricsVars, workerVars, loggerVars>>

GradeReordered ==
    /\ pc = "graded"
    /\ \E i, j \in 1..Len(citedList) :
          /\ i < j
          /\ citedList' = [citedList EXCEPT ![i] = citedList[j], ![j] = citedList[i]]
    /\ result' = GradeCitationAccuracy(citedList', expectedStr)
    /\ UNCHANGED <<pc, expectedStr>>
    /\ UNCHANGED <<pipelineVars, clauseVars, metricsVars, workerVars, loggerVars>>

NextGrade == Grade \/ GradeWithOneMore \/ GradeReordered

SpecGrade == InitGrade /\ [][NextGrade]_vars

(***************************************************************************)
(* One call of _evaluate_kg_metrics.                                       *)
(***************************************************************************)
InitMetrics ==
    /\ pc = "unevaluated"
    /\ retrieved \in RetrievedContexts
    /\ golden \in GoldenFlags
    /\ answer = <<>>
    /\ metrics = NoMetrics
    /\ PipelineIdle
    /\ ClauseIdle
    /\ GraderIdle
    /\ WorkerIdle
    /\ LoggerIdle

EvaluateMetrics ==
    /\ pc = "unevaluated"
    /\ \E answer_text \in Answers :
        /\ answer' = answer_text
        /\ metrics' = EvaluateKgMetrics(answer_text, retrieved, golden.has_table, golden.has_diagram)
    /\ pc' = "evaluated"
    /\ UNCHANGED <<retrieved, golden>>
    /\ UNCHANGED <<pipelineVars, clauseVars, graderVars, workerVars, loggerVars>>

NextMetrics == EvaluateMetrics

SpecMetrics == InitMetrics /\ [][NextMetrics]_vars

(***************************************************************************)
(* The evaluation worker's loop over EVAL_QUEUE: rows are queued by        *)
(* queue_for_evaluation, _process_batch claims a batch and evaluates its   *)
(* first max_concurrent rows, each evaluation succeeds or raises.          *)
(***************************************************************************)
InitWorker ==
    /\ pc = "running"
    /\ queue = <<>>
    /\ stored = <<>>
    /\ \E cfg \in WorkerConfigs : worker = [w \in WorkerIds |-> NewWorker(cfg)]
    /\ PipelineIdle
    /\ ClauseIdle
    /\ GraderIdle
    /\ MetricsIdle
    /\ LoggerIdle

\* InteractionLogger.queue_for_evaluation
QueueForEvaluation ==
    /\ Len(queue) < MaxQueue
    /\ \E priority \in Priorities, max_retries \in 1..MaxRetries :
          queue' = Append(queue, NewQueueRow(priority, max_retries))
    /\ stored' = Append(stored, 0)
    /\ UNCHANGED <<pc, worker>>
    /\ UNCHANGED <<pipelineVars, clauseVars, graderVars, metricsVars, loggerVars>>

\* _claim_queue_items, the SELECT; with no row the batch is over
SelectPending(w) ==
    /\ worker[w].pc = "polling"
    /\ LET queue_ids == SelectClaimable(queue, worker[w].batch_size)
       IN  worker' = IF queue_ids = <<>> THEN worker
                     ELSE [worker EXCEPT ![w].pc = "selected", ![w].queue_items = queue_ids]
    /\ UNCHANGED <<pc, queue, stored>>
    /\ UNCHANGED <<pipelineVars, clauseVars, graderVars, metricsVars, loggerVars>>

\* _claim_queue_items, the UPDATE and commit; then _process_batch starts
\* the tasks of queue_items[:max_concurrent]
MarkClaimed(w) ==
    /\ worker[w].pc = "selected"
    /\ queue' = MarkRowsClaimed(queue, worker[w].queue_items, w)
    /\ worker' = [worker EXCEPT
                     ![w].pc = "evaluating",
                     ![w].tasks = StartedTasks(worker[w].queue_items, worker[w].max_concurrent)]
    /\ UNCHANGED <<pc, stored>>
    /\ UNCHANGED <<pipelineVars, clauseVars, graderVars, metricsVars, loggerVars>>

\* _evaluate_item, no exception: _store_eval_results, _complete_queue_item(success=True)
EvaluateItemSucceeds(w) ==
    /\ worker[w].pc = "evaluating"
    /\ \E queue_id \in worker[w].tasks :
          /\ stored' = [stored EXCEPT ![queue_id] = stored[queue_id] + 1]
          /\ queue' = [queue EXCEPT ![queue_id] = CompleteQueueItem(queue[queue_id], TRUE)]
          /\ worker' = [worker EXCEPT ![w].tasks = worker[w].tasks \ {queue_id}]
    /\ UNCHANGED pc
    /\ UNCHANGED <<pipelineVars, clauseVars, graderVars, metricsVars, loggerVars>>

\* _evaluate_item, an exception: _complete_queue_item(success=False)
EvaluateItemFails(w) ==
    /\ worker[w].pc = "evaluating"
    /\ \E queue_id \in worker[w].tasks :
          /\ queue' = [queue EXCEPT ![queue_id] = CompleteQueueItem(queue[queue_id], FALSE)]
          /\ worker' = [worker EXCEPT ![w].tasks = worker[w].tasks \ {queue_id}]
    /\ UNCHANGED <<pc, stored>>
    /\ UNCHANGED <<pipelineVars, clauseVars, graderVars, metricsVars, loggerVars>>

\* asyncio.gather returned: sleep poll_interval, then the next batch
BatchDone(w) ==
    /\ worker[w].pc = "evaluating"
    /\ worker[w].tasks = {}
    /\ worker' = [worker EXCEPT ![w].pc = "polling", ![w].queue_items = <<>>]
    /\ UNCHANGED <<pc, queue, stored>>
    /\ UNCHANGED <<pipelineVars, clauseVars, graderVars, metricsVars, loggerVars>>

\* one step of the loop of worker w
WorkerStep(w) ==
    \/ SelectPending(w)
    \/ MarkClaimed(w)
    \/ EvaluateItemSucceeds(w)
    \/ EvaluateItemFails(w)
    \/ BatchDone(w)

NextWorker ==
    \/ QueueForEvaluation
    \/ \E w \in WorkerIds :
          \/ SelectPending(w)
          \/ MarkClaimed(w)
          \/ EvaluateItemSucceeds(w)
          \/ EvaluateItemFails(w)
          \/ BatchDone(w)

SpecWorker == InitWorker /\ [][NextWorker]_vars

\* The loop of start() runs as long as the worker runs: every await returns
\* (a judge call ends with a result or an exception, the sleep ends), so a
\* worker that can take a step takes one.
WorkerFairness == \A w \in WorkerIds : WF_vars(WorkerStep(w))

SpecWorkerFair == InitWorker /\ [][NextWorker]_vars /\ WorkerFairness

(***************************************************************************)
(* Two evaluation workers, started by two runs of main(), on one queue.    *)
(***************************************************************************)
TwoWorkerIds == {"worker-1", "worker-2"}

InitTwoWorkers ==
    /\ pc = "running"
    /\ queue = <<>>
    /\ stored = <<>>
    /\ \E cfg \in WorkerConfigs : worker = [w \in TwoWorkerIds |-> NewWorker(cfg)]
    /\ PipelineIdle
    /\ ClauseIdle
    /\ GraderIdle
    /\ MetricsIdle
    /\ LoggerIdle

NextTwoWorkers ==
    \/ QueueForEvaluation
    \/ \E w \in TwoWorkerIds :
          \/ SelectPending(w)
          \/ MarkClaimed(w)
          \/ EvaluateItemSucceeds(w)
          \/ EvaluateItemFails(w)
          \/ BatchDone(w)

SpecTwoWorkers == InitTwoWorkers /\ [][NextTwoWorkers]_vars

(***************************************************************************)
(* The InteractionLogger's background logging: start_worker, log_session / *)
(* log_interaction, the loop of _process_log_queue, stop_worker.           *)
(***************************************************************************)
\* how an insert ends for the loop of _process_log_queue: _insert_session_sync
\* catches every exception of its statement and returns; the handler of
\* _insert_interaction_sync calls connection.rollback() outside any try, so a
\* failed insert returns or, when the rollback fails too, raises.
InsertOutcomes(type) == IF type = "interaction" THEN {"returned", "raised"} ELSE {"returned"}

InitLogger ==
    /\ pc = "logging"
    /\ logger = NewLogger
    /\ PipelineIdle
    /\ ClauseIdle
    /\ GraderIdle
    /\ MetricsIdle
    /\ WorkerIdle

\* start_worker: a task is created only if none was created before
StartWorker ==
    /\ logger.start_calls < MaxStartCalls
    /\ logger' = IF logger.worker_task = "None"
                 THEN [logger EXCEPT !.worker_task = "running", !.tasks = @ + 1, !.start_calls = @ + 1]
                 ELSE [logger EXCEPT !.start_calls = @ + 1]
    /\ UNCHANGED <<pc, pipelineVars, clauseVars, graderVars, metricsVars, workerVars>>

\* log_session / log_interaction: log_queue.put_nowait(item), which counts
\* the item as an unfinished task of the queue
LogItem ==
    /\ logger.put_calls < MaxLogItems
    /\ \E type \in LogTypes :
          logger' = [logger EXCEPT !.put_calls = @ + 1,
                                   !.log_queue = Append(@, [id |-> logger.put_calls + 1, type |-> type]),
                                   !.unfinished_tasks = @ + 1]
    /\ UNCHANGED <<pc, pipelineVars, clauseVars, graderVars, metricsVars, workerVars>>

\* one turn of the loop: get, insert (synchronous), task_done
ProcessItemDone ==
    /\ logger.worker_task = "running"
    /\ logger.log_queue # <<>>
    /\ "returned" \in InsertOutcomes(Head(logger.log_queue).type)
    /\ logger' = [logger EXCEPT !.log_queue = Tail(@),
                                !.unfinished_tasks = @ - 1,
                                !.done = @ \cup {Head(logger.log_queue).id}]
    /\ UNCHANGED <<pc, pipelineVars, clauseVars, graderVars, metricsVars, workerVars>>

\* one turn of the loop in which the insert raises: the loop's except Exception
\* logs the error and goes on, task_done is skipped
ProcessItemRaises ==
    /\ logger.worker_task = "running"
    /\ logger.log_queue # <<>>
    /\ "raised" \in InsertOutcomes(Head(logger.log_queue).type)
    /\ logger' = [logger EXCEPT !.log_queue = Tail(@)]
    /\ UNCHANGED <<pc, pipelineVars, clauseVars, graderVars, metricsVars, workerVars>>

\* stop_worker is called: with a worker task it awaits log_queue.join(),
\* without one it returns at once
StopWorker ==
    /\ logger.stop = "not_called"
    /\ logger' = [logger EXCEPT !.stop = IF logger.worker_task = "None" THEN "returned_no_worker" ELSE "joining",
                                !.queued_before_stop = 1..logger.put_calls]
    /\ UNCHANGED <<pc, pipelineVars, clauseVars, graderVars, metricsVars, workerVars>>

\* log_queue.join() returns once no task of the queue is unfinished; the
\* worker task is cancelled and awaited
JoinReturns ==
    /\ logger.stop = "joining"
    /\ logger.unfinished_tasks = 0
    /\ logger' = [logger EXCEPT !.stop = "awaiting_task", !.worker_task = "cancelling"]
    /\ UNCHANGED <<pc, pipelineVars, clauseVars, graderVars, metricsVars, workerVars>>

\* the loop receives CancelledError at log_queue.get() and breaks
TaskCancelled ==
    /\ logger.worker_task = "cancelling"
    /\ logger' = [logger EXCEPT !.worker_task = "cancelled", !.tasks = @ - 1]
    /\ UNCHANGED <<pc, pipelineVars, clauseVars, graderVars, metricsVars, workerVars>>

\* await self._worker_task ends, stop_worker returns
StopReturns ==
    /\ logger.stop = "awaiting_task"
    /\ logger.worker_task = "cancelled"
    /\ logger' = [logger EXCEPT !.stop = "returned"]
    /\ UNCHANGED <<pc, pipelineVars, clauseVars, graderVars, metricsVars, workerVars>>

NextLogger ==
    \/ StartWorker
    \/ LogItem
    \/ ProcessItemDone
    \/ ProcessItemRaises
    \/ StopWorker
    \/ JoinReturns
    \/ TaskCancelled
    \/ StopReturns

\* the event loop runs every task that can run: the worker task's loop and
\* the coroutine of stop_worker; the callers of start_worker, log_* and
\* stop_worker are under no obligation.
LoggerFairness ==
    /\ WF_vars(ProcessItemDone \/ ProcessItemRaises)
    /\ WF_vars(JoinReturns)
    /\ WF_vars(TaskCancelled)
    /\ WF_vars(StopReturns)

SpecLogger == InitLogger /\ [][NextLogger]_vars /\ LoggerFairness

(***************************************************************************)
(* Properties of the rerank / quota-selection pipeline.                    *)
(***************************************************************************)
Selected == pc = "selected"

\* the classes of items as the claims word them
NormativeTextItem(c) ==
    c.CONTENT_TYPE = "text_chunk" /\ c.KG_CLASS \in {"A", "B", "UNKNOWN"}
ClassCTextItem(c) == c.CONTENT_TYPE = "text_chunk" /\ c.KG_CLASS = "C"
NonTextItem(c) == c.CONTENT_TYPE \in {"structured_table", "visual_content"}

NumNormative(list) == Len(SelectSeq(list, NormativeTextItem))
NumClassC(list) == Len(SelectSeq(list, ClassCTextItem))
NumNonText(list) == Len(SelectSeq(list, NonTextItem))

Ids(list) == {list[i].CONTENT_ID : i \in 1..Len(list)}
Max(a, b) == IF a > b THEN a ELSE b

C2_MinNormative ==
    Selected =>
        /\ NumNormative(reranked) >= config.MIN_NORMATIVE_TEXT
              => NumNormative(final) >= config.MIN_NORMATIVE_TEXT
        /\ NumNormative(reranked) < config.MIN_NORMATIVE_TEXT
              => \A i \in 1..Len(reranked) :
                    NormativeTextItem(reranked[i])
                        => reranked[i].CONTENT_ID \in Ids(final)

\* the quota is what keeps the items in: there is no room for them otherwise
C2_Witness ==
    /\ Selected
    /\ config.MIN_NORMATIVE_TEXT >= 1
    /\ NumNormative(reranked) > config.MIN_NORMATIVE_TEXT
    /\ config.KG_FINAL_K < config.MIN_NORMATIVE_TEXT
    /\ NumNormative(final) = config.MIN_NORMATIVE_TEXT

\* C3: the final set never holds more than maxNonNormativeText class-C text
\* items.
C3_MaxNonNormative == Selected => NumClassC(final) <= config.MAX_NON_NORMATIVE_TEXT

\* more class-C items retrieved than the cap, room for them, the cap reached
C3_Witness ==
    /\ Selected
    /\ config.MAX_NON_NORMATIVE_TEXT >= 1
    /\ NumClassC(reranked) > config.MAX_NON_NORMATIVE_TEXT
    /\ Len(final) < config.KG_FINAL_K
    /\ NumClassC(final) = config.MAX_NON_NORMATIVE_TEXT

\* an item without the stage-local RANK
Unranked(c) == [c EXCEPT !.RANK = 0]

\* C4: every item of the output is an item of the reranked input, and no
\* input item is in the output twice.
C4_SubsetNoDuplicates ==
    Selected =>
        /\ \A j \in 1..Len(final) :
              \E i \in 1..Len(reranked) : Unranked(reranked[i]) = Unranked(final[j])
        /\ \A j, k \in 1..Len(final) :
              final[j].CONTENT_ID = final[k].CONTENT_ID => j = k

\* both quotas and the fill step contributed, and something was left out
C4_Witness ==
    /\ Selected
    /\ Len(final) >= 2
    /\ Len(final) < Len(reranked)
    /\ config.MIN_NORMATIVE_TEXT >= 1
    /\ NumNormative(final) > config.MIN_NORMATIVE_TEXT

\* C5: with at least minUnknownNonText non-text items in the input the final
\* set holds at least minUnknownNonText of them; with fewer, all of them.
C5_MinNonText ==
    Selected =>
        /\ NumNonText(reranked) >= config.MIN_UNKNOWN_NONTEXT
              => NumNonText(final) >= config.MIN_UNKNOWN_NONTEXT
        /\ NumNonText(reranked) < config.MIN_UNKNOWN_NONTEXT
              => \A i \in 1..Len(reranked) :
                    NonTextItem(reranked[i])
                        => reranked[i].CONTENT_ID \in Ids(final)

C5_Witness ==
    /\ Selected
    /\ config.MIN_UNKNOWN_NONTEXT >= 1
    /\ NumNonText(reranked) > config.MIN_UNKNOWN_NONTEXT
    /\ config.KG_FINAL_K < config.MIN_UNKNOWN_NONTEXT
    /\ NumNonText(final) = config.MIN_UNKNOWN_NONTEXT

\* the input candidate a reranked object was made from
SourceOf(r) == candidates[r.CONTENT_ID]

\* C6: rerank returns a permutation of its input, sorted by rerankScore
\* descending, equal scores in input order, rank 1..N in output order.
C6_RerankPermutationStable ==
    pc = "reranked" =>
        /\ Len(reranked) = Len(candidates)
        /\ Ids(reranked) = 1..Len(candidates)
        /\ \A i \in 1..Len(reranked) :
              /\ reranked[i].CONTENT_TYPE = SourceOf(reranked[i]).CONTENT_TYPE
              /\ reranked[i].KG_CLASS = SourceOf(reranked[i]).KG_CLASS
              /\ reranked[i].SIMILARITY = SourceOf(reranked[i]).SIMILARITY
              /\ reranked[i].RANK = i
        /\ \A i, j \in 1..Len(reranked) :
              i < j =>
                 /\ reranked[i].RERANK_SCORE >= reranked[j].RERANK_SCORE
                 /\ (reranked[i].RERANK_SCORE = reranked[j].RERANK_SCORE
                       => reranked[i].CONTENT_ID < reranked[j].CONTENT_ID)

\* the sort moved something, and two items of different kinds tie
C6_Witness ==
    /\ pc = "reranked"
    /\ \E i, j \in 1..Len(reranked) :
          /\ i < j
          /\ reranked[i].RERANK_SCORE = reranked[j].RERANK_SCORE
          /\ reranked[i].KG_CLASS # reranked[j].KG_CLASS
    /\ \E i \in 1..Len(reranked) : reranked[i].CONTENT_ID # i

\* the adjustment table of the claim
TableAdjustment(c) ==
    IF c.CONTENT_TYPE = "text_chunk" /\ c.KG_CLASS = "A" THEN 15
    ELSE IF c.CONTENT_TYPE = "text_chunk" /\ c.KG_CLASS = "B" THEN 5
    ELSE IF c.CONTENT_TYPE = "text_chunk" /\ c.KG_CLASS = "C" THEN -10
    ELSE 0

ExampleAC ==
    <<Candidate(1, <<"text_chunk", "A", 50>>), Candidate(2, <<"text_chunk", "C", 50>>)>>

\* C7: rerankScore = similarity + adjustment (A: +0.15, B: +0.05, C: -0.10,
\* text/Unknown and every non-text item: 0); two candidates of similarity 0.5
\* with classes A and C come out as A (0.65), C (0.40).
C7_RerankScore ==
    pc = "reranked" =>
        /\ \A i \in 1..Len(reranked) :
              reranked[i].RERANK_SCORE
                  = SourceOf(reranked[i]).SIMILARITY + TableAdjustment(SourceOf(reranked[i]))
        /\ candidates = ExampleAC
              => /\ Len(reranked) = 2
                 /\ reranked[1].KG_CLASS = "A" /\ reranked[1].RERANK_SCORE = 65
                 /\ reranked[2].KG_CLASS = "C" /\ reranked[2].RERANK_SCORE = 40

\* every row of the table occurs, a non-text item with a stray class included
C7_Witness ==
    /\ pc = "reranked"
    /\ \E i \in 1..Len(reranked) :
          reranked[i].CONTENT_TYPE = "visual_content" /\ reranked[i].KG_CLASS = "B"
    /\ \E i \in 1..Len(reranked) :
          reranked[i].CONTENT_TYPE = "text_chunk" /\ reranked[i].KG_CLASS = "C"
    /\ \E i \in 1..Len(reranked) :
          reranked[i].CONTENT_TYPE = "text_chunk" /\ reranked[i].KG_CLASS = "A"

\* C8: the selection's output is sorted by rerankScore descending and its
\* items carry rank 1..N in output order.
C8_FinalSortedRanked ==
    Selected =>
        /\ \A i, j \in 1..Len(final) :
              i < j => final[i].RERANK_SCORE >= final[j].RERANK_SCORE
        /\ \A i \in 1..Len(final) : final[i].RANK = i

\* the fill step brought in a text item that outscores an item the non-text
\* quota had taken before it, and something was left out
C8_Witness ==
    /\ Selected
    /\ Len(final) >= 2
    /\ Len(final) < Len(reranked)
    /\ config.MIN_NORMATIVE_TEXT = 0
    /\ config.MIN_UNKNOWN_NONTEXT >= 1
    /\ \E i, j \in 1..Len(final) :
          /\ i < j
          /\ final[i].CONTENT_TYPE = "text_chunk"
          /\ final[j].CONTENT_TYPE # "text_chunk"
          /\ final[i].RERANK_SCORE > final[j].RERANK_SCORE

(***************************************************************************)
(* Properties of the clause matcher and the clause normalizer.             *)
(***************************************************************************)
\* the dot-separated segments of a clause id, read character by character
RECURSIVE ParseSegments(_, _, _)
ParseSegments(s, current, done) ==
    IF s = <<>> THEN Append(done, current)
    ELSE IF Head(s) = "." THEN ParseSegments(Tail(s), <<>>, Append(done, current))
    ELSE ParseSegments(Tail(s), Append(current, Head(s)), done)

SegmentsOf(s) == ParseSegments(s, <<>>, <<>>)

\* a is a strict dotted-prefix of b: b's segments begin with all of a's, and
\* b has more
StrictDottedPrefix(a, b) ==
    /\ Len(SegmentsOf(a)) < Len(SegmentsOf(b))
    /\ \A k \in 1..Len(SegmentsOf(a)) : SegmentsOf(a)[k] = SegmentsOf(b)[k]

\* the ordered rule table of the claim
RuleTableScore(c, e) ==
    LET shorter == Min(Len(SegmentsOf(c)), Len(SegmentsOf(e)))
    IN  IF c = e THEN 100
        ELSE IF StrictDottedPrefix(c, e) \/ StrictDottedPrefix(e, c)
             THEN (IF shorter = 1 THEN 50 ELSE IF shorter = 2 THEN 60 ELSE 75)
        ELSE IF SegmentsOf(c)[1] = SegmentsOf(e)[1] THEN 30
        ELSE 0

Clause_1_4 == <<"1", ".", "4">>
Clause_1_4_32 == <<"1", ".", "4", ".", "3", "2">>
Clause_1_5 == <<"1", ".", "5">>
Clause_2_1 == <<"2", ".", "1">>
Clause_1_1 == <<"1", ".", "1">>

\* C9: the matcher returns the value of the ordered rule table (1.0 equal;
\* 0.5 / 0.6 / 0.75 for a strict dotted-prefix relation by the depth 1 / 2 /
\* >= 3 of the shorter clause; 0.3 for equal first segments; else 0.0), the
\* five quoted pairs give 0.6, 0.6, 0.3, 0.0 and 1.0, and the result is always
\* one of the six values.
C9_MatchScoreTable ==
    pc = "matched" =>
        /\ score = RuleTableScore(cited, expected)
        /\ score \in {100, 75, 60, 50, 30, 0}
        /\ (cited = Clause_1_4 /\ expected = Clause_1_4_32 => score = 60)
        /\ (cited = Clause_1_4_32 /\ expected = Clause_1_4 => score = 60)
        /\ (cited = Clause_1_4 /\ expected = Clause_1_5 => score = 30)
        /\ (cited = Clause_2_1 /\ expected = Clause_1_1 => score = 0)
        /\ (cited = Clause_1_4 /\ expected = Clause_1_4 => score = 100)

\* a cited child of an expected clause of depth 3, whose last number also
\* begins with the same digit as another clause's
C9_Witness ==
    /\ pc = "matched"
    /\ StrictDottedPrefix(expected, cited)
    /\ Len(SegmentsOf(expected)) = 3
    /\ SegmentsOf(expected)[3] = <<"1">>
    /\ SegmentsOf(cited)[4] = <<"1", "2">>
    /\ score = 75

\* ^\d+(\.\d+)*$ said of the characters: digits and dots only, a digit first
\* and last, no two dots in a row
WellFormedClauseId(s) ==
    /\ s # <<>>
    /\ \A i \in 1..Len(s) : s[i] \in Digits \cup {"."}
    /\ s[1] \in Digits
    /\ s[Len(s)] \in Digits
    /\ \A i \in 1..(Len(s) - 1) : ~(s[i] = "." /\ s[i + 1] = ".")

\* what trimming, deleting all but digits and dots, collapsing runs of dots
\* and stripping outer dots leave, read off in one pass: the digits in order,
\* with one dot between two digits that had a dot somewhere between them
RECURSIVE DigitsWithDots(_, _, _)
DigitsWithDots(s, seenDigit, dotPending) ==
    IF s = <<>> THEN <<>>
    ELSE IF Head(s) \in Digits
         THEN (IF seenDigit /\ dotPending THEN <<".">> ELSE <<>>)
              \o <<Head(s)>> \o DigitsWithDots(Tail(s), TRUE, FALSE)
    ELSE IF Head(s) = "." THEN DigitsWithDots(Tail(s), seenDigit, TRUE)
    ELSE DigitsWithDots(Tail(s), seenDigit, dotPending)

\* C10: the normalizer returns None or a string matching ^\d+(\.\d+)*$,
\* obtained by trimming, deleting every character other than digits and '.',
\* collapsing runs of dots and stripping outer dots; "Clause 1..4." gives
\* "1.4"; "abc", ".", "" and pure punctuation give None; every input gets a
\* value.
C10_NormalizeClause ==
    pc = "normalized" =>
        /\ normalized = None \/ WellFormedClauseId(normalized)
        /\ normalized =
              (IF DigitsWithDots(raw, FALSE, FALSE) = <<>> THEN None
               ELSE DigitsWithDots(raw, FALSE, FALSE))
        /\ (raw = ExampleClauseRaw => normalized = <<"1", ".", "4">>)
        /\ (raw \in {<<"a", "b", "c">>, <<".">>, <<>>, <<",", ";", "-", "!">>}
              => normalized = None)

C10_Witness ==
    /\ pc = "normalized"
    /\ raw = ExampleClauseRaw
    /\ normalized = <<"1", ".", "4">>

(***************************************************************************)
(* Properties of the citation grader.                                      *)
(***************************************************************************)
Graded == pc = "graded"

HasDigit(s) == \E i \in 1..Len(s) : s[i] \in Digits

\* the clause id a raw string stands for
ClauseIdOf(s) == DigitsWithDots(s, FALSE, FALSE)

\* the parts of a string between separators, read character by character
RECURSIVE ParseParts(_, _, _, _)
ParseParts(s, sep, current, done) ==
    IF s = <<>> THEN Append(done, current)
    ELSE IF Head(s) = sep THEN ParseParts(Tail(s), sep, <<>>, Append(done, current))
    ELSE ParseParts(Tail(s), sep, Append(current, Head(s)), done)

\* the cited strings that normalize, as clause ids
ValidCited == {ClauseIdOf(citedList[k]) : k \in {i \in 1..Len(citedList) : HasDigit(citedList[i])}}

\* the comma-separated parts of the expected string that normalize, as clause ids
ValidExpected ==
    IF expectedStr = None THEN {}
    ELSE LET parts == ParseParts(expectedStr, ",", <<>>, <<>>)
         IN  {ClauseIdOf(parts[k]) : k \in {i \in 1..Len(parts) : HasDigit(parts[i])}}

SetMax(S) == CHOOSE m \in S : \A x \in S : m >= x

\* C11: gradeCitations returns a complete {accuracy, isCorrect, diagnostics}
\* value for every input; an empty cited list gives 0.0 / false (also with the
\* expected clause missing); a non-empty cited list with a missing, empty or
\* unparsable expected clause gives 0.5 / false; a cited list none of whose
\* members normalizes, with a valid expected clause, gives 0.0 / false.
C11_GraderEdgeCases ==
    Graded =>
        /\ DOMAIN result = {"citation_accuracy", "correct_clause_ref", "citation_details"}
        /\ result.citation_accuracy \in 0..100
        /\ result.correct_clause_ref \in BOOLEAN
        /\ citedList = <<>>
              => result.citation_accuracy = 0 /\ ~result.correct_clause_ref
        /\ citedList # <<>> /\ ValidExpected = {}
              => result.citation_accuracy = 50 /\ ~result.correct_clause_ref
        /\ citedList # <<>> /\ ValidExpected # {} /\ ValidCited = {}
              => result.citation_accuracy = 0 /\ ~result.correct_clause_ref

\* no citation and no expected clause: the empty citation list decides
C11_Witness ==
    /\ Graded
    /\ citedList = <<>>
    /\ expectedStr = None
    /\ result.citation_accuracy = 0
    /\ result.citation_details = "No citations found in answer"

\* C12: with a valid cited and a valid expected clause the accuracy is the
\* maximum over the valid cited clauses of the maximum matcher score against
\* the valid expected clauses.
C12_MaxOfMax ==
    Graded /\ ValidCited # {} /\ ValidExpected # {} =>
        result.citation_accuracy =
            SetMax({SetMax({RuleTableScore(c, e) : e \in ValidExpected}) : c \in ValidCited})

\* two valid citations of different worth, the better one first, two expected
\* clauses, and an invalid citation among them
C12_Witness ==
    /\ Graded
    /\ Len(citedList) = 3
    /\ Cardinality(ValidCited) = 2
    /\ Cardinality(ValidExpected) = 2
    /\ HasDigit(citedList[1]) /\ HasDigit(citedList[3])
    /\ SetMax({RuleTableScore(ClauseIdOf(citedList[1]), e) : e \in ValidExpected}) = 75
    /\ SetMax({RuleTableScore(ClauseIdOf(citedList[3]), e) : e \in ValidExpected}) = 0
    /\ result.citation_accuracy = 75

\* C13: isCorrect holds exactly when accuracy >= 0.75; then some valid cited
\* clause equals an expected clause or is in a strict prefix relation with one
\* whose shorter side has depth >= 3; the 0.5 results are never correct.
C13_CorrectThreshold ==
    Graded =>
        /\ result.correct_clause_ref <=> result.citation_accuracy >= 75
        /\ result.correct_clause_ref =>
              \E c \in ValidCited, e \in ValidExpected :
                  \/ c = e
                  \/ /\ StrictDottedPrefix(c, e) \/ StrictDottedPrefix(e, c)
                     /\ Min(Len(SegmentsOf(c)), Len(SegmentsOf(e))) >= 3
        /\ result.citation_accuracy = 50 => ~result.correct_clause_ref

\* correct on a prefix match alone, next to a citation that only reaches 0.6
C13_Witness ==
    /\ Graded
    /\ result.correct_clause_ref
    /\ result.citation_accuracy = 75
    /\ \E c \in ValidCited :
          SetMax({RuleTableScore(c, e) : e \in ValidExpected}) = 60

\* C14: for a fixed expected string, one more cited string (valid or not)
\* added to a non-empty cited list never lowers the accuracy, and reordering
\* the cited list leaves it unchanged.
C14_MonotoneOrderFree ==
    [][(pc = "graded" /\ pc' = "graded" /\ citedList # <<>> /\ expectedStr' = expectedStr) =>
          /\ Len(citedList') > Len(citedList)
                => result'.citation_accuracy >= result.citation_accuracy
          /\ Len(citedList') = Len(citedList)
                => result'.citation_accuracy = result.citation_accuracy]_vars

\* a list that grew past the first call's, its best citation first and a
\* worthless valid citation last
C14_Witness ==
    /\ Graded
    /\ Len(citedList) = MaxCitedList + 1
    /\ ValidExpected # {}
    /\ HasDigit(citedList[1])
    /\ HasDigit(citedList[Len(citedList)])
    /\ SetMax({RuleTableScore(ClauseIdOf(citedList[Len(citedList)]), e) : e \in ValidExpected}) = 0
    /\ result.citation_accuracy = 100

(***************************************************************************)
(* Properties of the coverage metrics.                                     *)
(***************************************************************************)
Evaluated == pc = "evaluated"

NonTextTypes == {"structured_table", "visual_content"}
StrayClasses == {"A", "B", "C"}

\* the retrieved items cited by the answer: those whose content id occurs
\* in a citation
CitedItems ==
    {i \in 1..Len(retrieved) : \E k \in 1..Len(answer) : answer[k].id = retrieved[i].content_id}

RetrievedWithClass(classes) == {i \in 1..Len(retrieved) : retrieved[i].kg_class \in classes}
CitedWithClass(classes) == {i \in CitedItems : retrieved[i].kg_class \in classes}

TextItemsOfClass(items, k) ==
    {i \in items : retrieved[i].content_type = "text_chunk" /\ retrieved[i].kg_class = k}

\* C15: a non-text candidate (structured_table or visual_content) carrying a
\* stray class A, B or C is treated as Unknown by every component: rerank
\* gives it adjustment 0, quota selection places it in the nonText bucket and
\* in neither text bucket, and the coverage metrics do not count it as a
\* class-A/B/C item (their per-class counts of retrieved and of cited items
\* count text items only).
C15_StrayClassUnknownEverywhere ==
    /\ \A t \in NonTextTypes, k \in StrayClasses :
          /\ KgBoost(t, k) = 0
          /\ \A c \in {[CONTENT_TYPE |-> t, KG_CLASS |-> k]} :
                IsUnknownNonText(c) /\ ~IsNormativeText(c) /\ ~IsNonNormativeText(c)
    /\ Evaluated =>
          \A k \in StrayClasses :
              /\ metrics.kg_retrieved_counts[k] = Cardinality(TextItemsOfClass(1..Len(retrieved), k))
              /\ metrics.kg_cited_counts[k] = Cardinality(TextItemsOfClass(CitedItems, k))

\* C16: the NormativeCoverage score is 1.0 if at least one cited item has
\* class A or B, 0.5 if no cited item has class A/B but at least one retrieved
\* item has class A or B, and 0.0 otherwise.
C16_NormativeCoverage ==
    Evaluated =>
        metrics.kg_normative_coverage =
            (IF CitedWithClass({"A", "B"}) # {} THEN 100
             ELSE IF RetrievedWithClass({"A", "B"}) # {} THEN 50
             ELSE 0)

\* items are cited, none of them of class A or B, and a class-A/B item was retrieved
C16_Witness ==
    /\ Evaluated
    /\ CitedItems # {}
    /\ CitedWithClass({"A", "B"}) = {}
    /\ RetrievedWithClass({"A", "B"}) # {}
    /\ metrics.kg_normative_coverage = 50

FractionEq(f, num, den) == f.num * den = num * f.den

\* C17: the NonNormativeReliance score equals
\* max(0, 1 - (countC_cited / totalCited) / 0.5), which is
\* max(0, (totalCited - 2 countC_cited) / totalCited), when totalCited > 0
\* and 1.0 when totalCited = 0; it is 1.0 with no C citations, 0 once the
\* C citations exceed half of all citations, and always lies in [0, 1].
C17_NonNormativeReliance ==
    Evaluated =>
        LET countC_cited == Cardinality(CitedWithClass({"C"}))
            totalCited == Cardinality(CitedItems)
            s == metrics.kg_non_normative_reliance
        IN  /\ s.den > 0
            /\ totalCited = 0 => FractionEq(s, 1, 1)
            /\ totalCited > 0 =>
                  IF totalCited - 2 * countC_cited > 0
                  THEN FractionEq(s, totalCited - 2 * countC_cited, totalCited)
                  ELSE FractionEq(s, 0, 1)
            /\ countC_cited = 0 => FractionEq(s, 1, 1)
            /\ 2 * countC_cited > totalCited => FractionEq(s, 0, 1)
            /\ 0 <= s.num /\ s.num <= s.den

\* one of three citations is of class C: the score is 1/3, inside the
\* linear part
C17_Witness ==
    /\ Evaluated
    /\ Cardinality(CitedItems) = 3
    /\ Cardinality(CitedWithClass({"C"})) = 1
    /\ FractionEq(metrics.kg_non_normative_reliance, 1, 3)

\* the lexical cue check, stated on the words of the answer
ApplicabilityCues ==
    {"where", "Where", "when", "When", "if", "If", "unless", "Unless", "may", "May", "can", "Can"}
SaysApplicability == \E k \in 1..Len(answer) : answer[k].text \in ApplicabilityCues

\* C18: if any class-B item is cited, ConditionalRisk is 1.0 when the answer
\* contains applicability/conditional language and 0.0 when it does not; it
\* is 1.0 if no class-B item is involved at all (none cited, none retrieved).
C18_ConditionalRisk ==
    Evaluated =>
        /\ CitedWithClass({"B"}) # {} =>
              metrics.kg_conditional_risk = (IF SaysApplicability THEN 100 ELSE 0)
        /\ RetrievedWithClass({"B"}) = {} => metrics.kg_conditional_risk = 100

\* a class-B item is cited and the answer has no conditional language
C18_Witness ==
    /\ Evaluated
    /\ CitedWithClass({"B"}) # {}
    /\ ~SaysApplicability
    /\ metrics.kg_conditional_risk = 0

TableRequired == golden.has_table = "True"
DiagramRequired == golden.has_diagram = "True"
TableRetrieved == \E i \in 1..Len(retrieved) : retrieved[i].content_type = "structured_table"
VisualRetrieved == \E i \in 1..Len(retrieved) : retrieved[i].content_type = "visual_content"
ReferencesTable ==
    \E k \in 1..Len(answer) : answer[k].text \in {"Table", "table"} /\ answer[k].number # ""
ReferencesFigure ==
    \E k \in 1..Len(answer) : answer[k].text \in {"Figure", "figure"} /\ answer[k].number # ""
Starved == (TableRequired /\ ~TableRetrieved) \/ (DiagramRequired /\ ~VisualRetrieved)
ReferencesMissingType ==
    (ReferencesTable /\ ~TableRetrieved) \/ (ReferencesFigure /\ ~VisualRetrieved)

\* C19 as stated: MultimodalStarvation is 0.0 if the ground truth indicates a
\* table (resp. diagram) was required but no structured_table (resp.
\* visual_content) item was retrieved; otherwise it is 1.0, except that it is
\* 0.5 when the answer references a table/figure number but no item of that
\* type was retrieved.
C19_AsStated ==
    Evaluated =>
        metrics.kg_multimodal_starvation =
            (IF Starved THEN 0 ELSE IF ReferencesMissingType THEN 50 ELSE 100)

\* C19 amended: as above, but the 0.5 is given only when the ground truth
\* indicates neither a table nor a diagram.
C19_MultimodalStarvation ==
    Evaluated =>
        metrics.kg_multimodal_starvation =
            (IF Starved THEN 0
             ELSE IF ~TableRequired /\ ~DiagramRequired /\ ReferencesMissingType THEN 50
             ELSE 100)

\* no ground truth, the answer refers to a figure, no visual was retrieved
C19_Witness ==
    /\ Evaluated
    /\ ~TableRequired /\ ~DiagramRequired
    /\ ReferencesFigure /\ ~VisualRetrieved
    /\ ~(ReferencesTable /\ ~TableRetrieved)
    /\ metrics.kg_multimodal_starvation = 50

(***************************************************************************)
(* Properties of the evaluation worker.                                    *)
(***************************************************************************)
QueueIds == 1..Len(queue)

UnderEvaluation(queue_id) == \E w \in DOMAIN worker : queue_id \in worker[w].tasks

\* the retry ceiling as a state property: the failure count is at most
\* max_retries, and a row is 'failed' exactly when the count has reached it
RetryCeilingKept ==
    \A i \in QueueIds :
        /\ queue[i].retry_count <= queue[i].max_retries
        /\ queue[i].retry_count >= queue[i].max_retries => queue[i].status = "failed"
        /\ queue[i].status = "failed" => queue[i].retry_count = queue[i].max_retries

\* a failed row stays as it is; no SELECT returns it and no task evaluates it
FailedIsFinal ==
    \A i \in QueueIds :
        queue[i].status = "failed" =>
            /\ queue'[i] = queue[i]
            /\ stored'[i] = stored[i]
            /\ \A w \in DOMAIN worker :
                  /\ i \notin worker'[w].tasks
                  /\ worker'[w].queue_items # worker[w].queue_items =>
                        \A k \in 1..Len(worker'[w].queue_items) : worker'[w].queue_items[k] # i

\* C20: a queue item whose evaluation keeps failing is marked permanently
\* 'failed' once its failure count reaches max_retries: retry_count never
\* exceeds max_retries, and an item in status 'failed' is never claimed or
\* evaluated again.
C20_RetryCeiling == []RetryCeilingKept /\ [][FailedIsFinal]_vars

\* a row has failed twice, which was its ceiling, and the worker polls again
C20_Witness ==
    \E i \in QueueIds :
        /\ queue[i].status = "failed"
        /\ queue[i].retry_count = 2
        /\ queue[i].max_retries = 2
        /\ \E w \in DOMAIN worker : worker[w].pc = "polling"

\* a failed evaluation of row i with retries left returns it to 'pending'
\* with claimed_at and worker_id cleared
FailureReturnsToPending ==
    \A i \in QueueIds :
        (/\ queue[i].status = "claimed"
         /\ queue'[i].retry_count = queue[i].retry_count + 1
         /\ queue[i].retry_count + 1 < queue[i].max_retries)
        => /\ queue'[i].status = "pending"
           /\ queue'[i].claimed_at = "NULL"
           /\ queue'[i].worker_id = "NULL"

RetryPending(i) ==
    i \in QueueIds /\ queue[i].status = "pending" /\ queue[i].retry_count > 0
Finished(i) ==
    i \in QueueIds /\ queue[i].status \in {"completed", "failed"}

\* C21: a queue item whose evaluation fails while retries remain
\* (retry_count + 1 < max_retries) is returned to 'pending' with claimed_at
\* and worker_id cleared, and is retried: under fair polling every such item
\* eventually reaches 'completed' or 'failed'.
C21_RetriedToTheEnd ==
    /\ [][FailureReturnsToPending]_vars
    /\ \A i \in 1..MaxQueue : RetryPending(i) ~> Finished(i)

\* C22: at every moment a worker has at most max_concurrent queue items
\* under evaluation, whatever the batch size and the queue length.
C22_ConcurrencyCap ==
    \A w \in DOMAIN worker : Cardinality(worker[w].tasks) <= worker[w].max_concurrent

\* a batch of more rows than max_concurrent has been claimed and as many
\* evaluations as the cap allows are in flight
C22_Witness ==
    \E w \in DOMAIN worker :
        /\ worker[w].pc = "evaluating"
        /\ Len(worker[w].queue_items) > worker[w].max_concurrent
        /\ Cardinality(worker[w].tasks) = worker[w].max_concurrent

Claimed(i) == i \in QueueIds /\ queue[i].status = "claimed"

\* C28: every queue item that a worker's claim step sets to 'claimed' is
\* subsequently evaluated by that worker and leaves the 'claimed' status (to
\* 'completed', 'pending' or 'failed'): no item remains 'claimed' forever
\* while the worker keeps running.
C28_ClaimedIsEvaluated ==
    \A i \in 1..MaxQueue : Claimed(i) ~> ~Claimed(i)

\* C29: with two workers polling the same queue, no item is evaluated by
\* both workers and no item yields two stored evaluation results.
C29_ClaimedByOneWorker ==
    \A i \in QueueIds :
        /\ Cardinality({w \in DOMAIN worker : i \in worker[w].tasks}) <= 1
        /\ stored[i] <= 1

(***************************************************************************)
(* Claims about rerank's frame and about the edge cases of quota selection *)
(***************************************************************************)
RerankCalled == pc \in {"retrieved", "reranked"} /\ pc' \in {"reranked", "reranked_again"} /\ pc' # pc

InputKept ==
    /\ candidates' = candidates
    /\ \A i \in 1..Len(candidates) : candidates'[i] = Candidate(i, <<candidates[i].CONTENT_TYPE, candidates[i].KG_CLASS, candidates[i].SIMILARITY>>)

SecondCallSameOutput == (pc = "reranked" /\ pc' = "reranked_again") => reranked' = reranked

FirstClassC(list, n) ==
    {list[i].CONTENT_ID : i \in {j \in 1..Len(list) : ClassCTextItem(list[j]) /\ NumClassC(SubSeq(list, 1, j)) <= n}}

ItemsOfKind(list, Kind(_)) == {list[i].CONTENT_ID : i \in {j \in 1..Len(list) : Kind(list[j])}}

FewerThanFinalSize == Len(reranked) < config.KG_FINAL_K

\* C24: when there are fewer reranked candidates than finalSize, the selection
\* returns exactly every normative-text item, every non-text item and the first
\* maxNonNormativeText class-C text items, each once.
C24_FewerThanFinalSize ==
    (Selected /\ FewerThanFinalSize) =>
        /\ Ids(final) = ItemsOfKind(reranked, NormativeTextItem) \cup ItemsOfKind(reranked, NonTextItem)
                           \cup FirstClassC(reranked, config.MAX_NON_NORMATIVE_TEXT)
        /\ Len(final) = Cardinality(Ids(final))

\* fewer candidates than finalSize, with a class-C item kept and a surplus
\* class-C item dropped
C24_Witness ==
    /\ Selected
    /\ FewerThanFinalSize
    /\ config.MAX_NON_NORMATIVE_TEXT >= 1
    /\ NumClassC(reranked) > config.MAX_NON_NORMATIVE_TEXT
    /\ NumClassC(final) = config.MAX_NON_NORMATIVE_TEXT
    /\ Len(final) < Len(reranked)
\* the ids of the first n items of a kind, and of the items of that kind after them
HeadOfKind(list, Kind(_), n) ==
    {list[i].CONTENT_ID : i \in {j \in 1..Len(list) : Kind(list[j]) /\ Len(SelectSeq(SubSeq(list, 1, j), Kind)) <= n}}
TailOfKind(list, Kind(_), n) == ItemsOfKind(list, Kind) \ HeadOfKind(list, Kind, n)

QuotaIds ==
    HeadOfKind(reranked, NormativeTextItem, config.MIN_NORMATIVE_TEXT)
        \cup HeadOfKind(reranked, NonTextItem, config.MIN_UNKNOWN_NONTEXT)
PoolIds ==
    TailOfKind(reranked, NormativeTextItem, config.MIN_NORMATIVE_TEXT)
        \cup TailOfKind(reranked, NonTextItem, config.MIN_UNKNOWN_NONTEXT)
        \cup FirstClassC(reranked, config.MAX_NON_NORMATIVE_TEXT)
FilledIds == Ids(final) \ QuotaIds
LeftOutIds == PoolIds \ Ids(final)
ScoreOf(id) == (CHOOSE c \in {reranked[i] : i \in 1..Len(reranked)} : c.CONTENT_ID = id).RERANK_SCORE

\* C25: every pool item left out of the final set scores no higher than every
\* item the fill step added, the fill step adds pool items only, and every
\* selected class-C item is one of the first maxNonNormativeText class-C items
\* of the reranked input.
C25_FillTakesBest ==
    Selected =>
        /\ \A x \in LeftOutIds : \A y \in FilledIds : ScoreOf(x) <= ScoreOf(y)
        /\ FilledIds \subseteq PoolIds
        /\ ItemsOfKind(final, ClassCTextItem) \subseteq FirstClassC(reranked, config.MAX_NON_NORMATIVE_TEXT)

\* the fill step added an item and left out a pool item of a strictly lower
\* score that stands before it in the pool's bucket order (a normative tail
\* item left out for a non-text or class-C item)
C25_Witness ==
    /\ Selected
    /\ \E x \in LeftOutIds : \E y \in FilledIds :
          /\ ScoreOf(x) < ScoreOf(y)
          /\ x \in ItemsOfKind(reranked, NormativeTextItem)
          /\ y \notin ItemsOfKind(reranked, NormativeTextItem)
\* the position of an id in a list
PosIn(list, id) == CHOOSE k \in 1..Len(list) : list[k].CONTENT_ID = id

KeepsRerankedOrder(j, k) == PosIn(reranked, final[j].CONTENT_ID) < PosIn(reranked, final[k].CONTENT_ID)

\* C26 as stated: any two selected items stand in the output in the order they
\* have in rerank's output, items of equal rerankScore included.
C26_AsStated ==
    Selected => \A j, k \in 1..Len(final) : j < k => KeepsRerankedOrder(j, k)

\* C26: any two selected items of different rerankScore stand in the output in
\* the order they have in rerank's output.
C26_OrderOfDistinctScores ==
    Selected =>
        \A j, k \in 1..Len(final) :
            (j < k /\ final[j].RERANK_SCORE # final[k].RERANK_SCORE) => KeepsRerankedOrder(j, k)

\* two selected items of different scores, the later one taken by a quota step
\* and the earlier one by the fill step
C26_Witness ==
    /\ Selected
    /\ \E j, k \in 1..Len(final) :
          /\ j < k
          /\ final[j].RERANK_SCORE > final[k].RERANK_SCORE
          /\ final[k].CONTENT_ID \in QuotaIds
          /\ final[j].CONTENT_ID \in FilledIds
(***************************************************************************)
(* Symmetry of the clause matcher                                          *)
(***************************************************************************)
SwappedCall == pc = "matched" /\ pc' = "matched_swapped"
FullScoreOnlyWhenEqual == pc = "matched" => (score = 100 <=> cited = expected)

\* C27: the score of two normalized clause ids is the same whichever of them
\* is the cited one, and it is 1.0 exactly when the two ids are equal.
C27_MatcherSymmetric == [][SwappedCall => score' = score]_vars /\ []FullScoreOnlyWhenEqual

\* a child match (cited more specific than expected) scored 0.6 and scored
\* 0.6 again as a parent match after the exchange
C27_Witness ==
    /\ pc = "matched_swapped"
    /\ score = 60
    /\ HasDottedPrefix(cited, expected)
(***************************************************************************)
(* Stopping the InteractionLogger's background worker                      *)
(***************************************************************************)
StopTerminates == (logger.stop = "joining") ~> (logger.stop = "returned")

DrainedAtReturn ==
    logger.stop = "returned" =>
        logger.queued_before_stop \subseteq logger.done

OneWorkerTask == logger.tasks <= 1

\* C30: once the worker was started, a call of stop_worker returns, and when
\* it returns every item queued before the call was taken off the queue with
\* task_done called for it, failed inserts included; there is never more than
\* one worker task, however often start_worker is called.
C30_StopDrainsAndTerminates == StopTerminates /\ []DrainedAtReturn /\ []OneWorkerTask

\* the parts of C30 that do not depend on stop_worker returning
C30_DrainedAndSingleTask == DrainedAtReturn /\ OneWorkerTask
====
